---- MODULE Spec2Model ----
(***************************************************************************)
(* Model of the two data preparation scripts of neotopia-navigator:        *)
(*   scripts/prepare_catrare.py  (vector pipeline, CatRaRE -> PMTiles)      *)
(*   scripts/prepare_kostra.py   (raster pipeline, KOSTRA  -> COG)          *)
(* One run of one script is one behaviour.  The network, the archive and   *)
(* the external tools are the environment: each call draws its outcome      *)
(* from the outcomes the call can have.  Writes to the local filesystem     *)
(* by the scripts themselves are taken to succeed.                          *)
(***************************************************************************)
EXTENDS Integers, Sequences, FiniteSets, TLC

\* Longest archive listing the environment hands to extract_shapefile.
MaxArchiveEntries == 2

VARIABLES
    pipeline,       \* "vector" | "raster": which script runs
    args,           \* parsed command line flags
    tools,          \* which external tools can be started on this machine
    initial,        \* the output directory as the run found it
    pc,             \* position of main()
    exitCode,       \* process exit status (0 unless sys.exit(1) is reached)
    outDir,         \* the output directory exists
    pmtiles,        \* <output-dir>/catrare.pmtiles
    geojson,        \* <output-dir>/catrare_recent.json
    rasters,        \* <output-dir>/kostra_d*_t*.tif, one per scenario
    workspace,      \* the tempfile.TemporaryDirectory of the run
    wsFiles,        \* vector: names in the workspace
    wsCount,        \* raster: number of .gz / .asc files in the workspace
    intermediates,  \* raster: NamedTemporaryFile(delete=False) files alive
    fsWrites,       \* number of filesystem creations/writes so far
    net,            \* network requests so far: HEAD probes and GET downloads
    toolRuns,       \* invocations of the conversion / packaging tools
    stages,         \* vector: stages main() has invoked, in order
    result,         \* vector: what each stage reported
    probes,         \* vector: outcome of each HEAD probe issued
    download_url,   \* vector: index of the resolved pattern, 0 = None
    archive,        \* vector: the container handed to extract_shapefile
    shp_path,       \* vector: entry returned by extract_shapefile
    mockRuns,       \* vector: calls of create_mock_data
    mockOut,        \* vector: what create_mock_data wrote, tried and returned
    toolCalls,      \* vector: calls of filter_and_convert_to_geojson and
                    \* convert_to_pmtiles: tool outcome and value returned
    upToDate,       \* vector: "Output already exists" was reported
    scenario,       \* raster: index of the scenario in process
    success_count,  \* raster: main()'s success counter
    processed,      \* raster: calls of process_scenario per scenario
    step,           \* raster: sub-steps of the scenario in process (or of
                    \* the one just finished), each with its outcome
    returned,       \* raster: what the last process_scenario returned
    planned         \* raster: (input, output) pairs printed by --dry-run

envVars    == <<pipeline, args, tools, initial>>
outVars    == <<outDir, pmtiles, geojson, rasters>>
tmpVars    == <<workspace, wsFiles, wsCount, intermediates>>
countVars  == <<fsWrites, net, toolRuns>>
vectorVars == <<stages, result, probes, download_url, archive, shp_path,
                mockRuns, mockOut, toolCalls, upToDate>>
rasterVars == <<scenario, success_count, processed, step, returned,
                planned>>
vars == <<envVars, outVars, tmpVars, countVars, vectorVars, rasterVars,
          pc, exitCode>>

-----------------------------------------------------------------------------
(* Configuration *)

\* prepare_catrare.py: the candidate URL patterns, in list order.
patterns == <<"version.zip", "version/version.zip", "latest.zip">>

\* prepare_kostra.py: DURATIONS and RETURN_PERIODS, key -> code, in dict order.
DURATIONS == << <<"60min", "060">>, <<"12h", "720">>, <<"24h", "1440">> >>
RETURN_PERIODS == << <<"10a", "010">>, <<"100a", "100">> >>

\* The nested loop "for d in DURATIONS: for p in RETURN_PERIODS" flattened.
Scenarios ==
    [i \in 1..(Len(DURATIONS) * Len(RETURN_PERIODS)) |->
        [d |-> DURATIONS[((i - 1) \div Len(RETURN_PERIODS)) + 1],
         p |-> RETURN_PERIODS[((i - 1) % Len(RETURN_PERIODS)) + 1]]]

total_count == Len(DURATIONS) * Len(RETURN_PERIODS)

\* f"hN_D{d_code}m_T{p_code}a.asc.gz"
InputFilename(s) == <<"hN_D", s.d[2], "m_T", s.p[2], "a.asc.gz">>
\* f"kostra_d{d_key}_t{p_key}.tif"
OutputFilename(s) == <<"kostra_d", s.d[1], "_t", s.p[1], ".tif">>

VectorTools == {"ogr2ogr", "tippecanoe", "pmtiles"}
AllTools == VectorTools \cup {"gdalinfo"}
VectorStages == {"locate", "fetch", "extract", "convert", "package"}

-----------------------------------------------------------------------------
(* Environment outcomes *)

ProbeOutcomes == {"200", "other_status", "network_error"}
DownloadOutcomes == {"ok", "http_error", "transfer_error"}
\* ogr2ogr: exit 0 with output, exit # 0, exit 0 without output, cannot be
\* started, exit 0 with an output json.load cannot parse.
Ogr2ogrOutcomes == {"ok", "nonzero", "nooutput", "nostart", "badjson"}
\* tippecanoe: as ogr2ogr; "badvalidate" is exit 0 with output, after which
\* the "pmtiles show" call raises something other than FileNotFoundError.
TippecanoeOutcomes == {"ok", "nonzero", "nooutput", "nostart", "badvalidate"}
UnpackOutcomes == {"ok", "badzip", "fault"}
EntryNames == {"a.shp", "b.shp", "a.dbf"}
EndsWithShp(n) == n \in {"a.shp", "b.shp"}

Listings == UNION {[1..n -> EntryNames] : n \in 0..MaxArchiveEntries}

\* The containers extract_shapefile can meet.  A container that does not
\* open has no listing, and extractall is only reached (so only then has an
\* outcome) when the listing holds a .shp entry.
Archives ==
    {a \in [opens : BOOLEAN, names : Listings, unpack : UnpackOutcomes] :
        /\ ~a.opens => a.names = <<>>
        /\ (\A i \in 1..Len(a.names) : ~EndsWithShp(a.names[i]))
              => a.unpack = "ok"}

NoArchive == [opens |-> FALSE, names |-> <<>>, unpack |-> "ok"]

\* Before create_mock_data has run.
NoMockOut ==
    [doc |-> [type |-> "none"], packaging |-> "none", returned |-> "none"]

-----------------------------------------------------------------------------
(* Initial state *)

InitVector ==
    /\ pipeline = "vector"
    /\ args \in [mock : BOOLEAN, geojson_only : BOOLEAN,
                 force_download : BOOLEAN, dry_run : {FALSE}]
    /\ tools \in {t \in [AllTools -> BOOLEAN] : ~t["gdalinfo"]}
    /\ \E dir \in BOOLEAN :
         /\ outDir = dir
         /\ pmtiles \in (IF dir THEN {"absent", "old"} ELSE {"absent"})
         /\ geojson \in (IF dir THEN {"absent", "old"} ELSE {"absent"})
    /\ rasters = [i \in 1..total_count |-> "absent"]

InitRaster ==
    /\ pipeline = "raster"
    /\ args \in [mock : {FALSE}, geojson_only : {FALSE},
                 force_download : {FALSE}, dry_run : BOOLEAN]
    /\ tools \in {t \in [AllTools -> BOOLEAN] :
                    \A v \in VectorTools : ~t[v]}
    /\ outDir \in BOOLEAN
    /\ pmtiles = "absent"
    /\ geojson = "absent"
    \* an empty directory, or the directory a complete earlier run left
    /\ rasters \in (IF outDir
                      THEN {[i \in 1..total_count |-> "absent"],
                            [i \in 1..total_count |-> "old"]}
                      ELSE {[i \in 1..total_count |-> "absent"]})

Init ==
    /\ (InitVector \/ InitRaster)
    /\ initial = [outDir |-> outDir, pmtiles |-> pmtiles,
                  geojson |-> geojson, rasters |-> rasters]
    /\ pc = "start"
    /\ exitCode = 0
    /\ workspace = "none"
    /\ wsFiles = {}
    /\ wsCount = [gz |-> 0, asc |-> 0]
    /\ intermediates = 0
    /\ fsWrites = 0
    /\ net = [head |-> 0, get |-> 0]
    /\ toolRuns = [ogr2ogr |-> 0, tippecanoe |-> 0, tippecanoe_mock |-> 0,
                   gdal_translate |-> 0, gdalwarp |-> 0]
    /\ stages = <<>>
    /\ result = [s \in VectorStages |-> "none"]
    /\ probes = <<>>
    /\ download_url = 0
    /\ archive = NoArchive
    /\ shp_path = "none"
    /\ mockRuns = 0
    /\ mockOut = NoMockOut
    /\ toolCalls = <<>>
    /\ upToDate = FALSE
    /\ scenario = 0
    /\ success_count = 0
    /\ processed = [i \in 1..total_count |-> 0]
    /\ step = <<>>
    /\ returned = "none"
    /\ planned = <<>>

-----------------------------------------------------------------------------
(* Shared helpers *)

\* Leaving the "with tempfile.TemporaryDirectory()" block, by return, by
\* falling off its end or by an exception, removes the directory.
ReleaseWorkspace_Leaks(ws) == ws
ReleaseWorkspace(ws) == IF ws = "live" THEN "removed" ELSE ws

\* mkdir(parents=True, exist_ok=True): a write only when the directory is new.
MkdirWrites(exists) == IF exists THEN 0 ELSE 1

Exists(f) == f # "absent"


-----------------------------------------------------------------------------
(* prepare_catrare.py: the stages *)

\* check_dependencies(): deps[tool] is whether "<tool> --version" ran.
check_dependencies == [t \in VectorTools |-> tools[t]]

\* find_catrare_download_url(): HEAD each pattern in order, return the first
\* answering 200; a RequestException is skipped with "continue".
RECURSIVE FirstOk_ErrorAborts(_, _)
FirstOk_ErrorAborts(outs, i) ==
    IF i > Len(outs) THEN 0
    ELSE IF outs[i] = "200" THEN i
    ELSE IF outs[i] = "network_error" THEN 0
    ELSE FirstOk_ErrorAborts(outs, i + 1)
RECURSIVE FirstOk(_, _)
FirstOk(outs, i) ==
    IF i > Len(outs) THEN 0
    ELSE IF outs[i] = "200" THEN i
    ELSE FirstOk(outs, i + 1)

find_catrare_download_url(outs) == FirstOk(outs, 1)

\* Number of HEAD requests the loop issues for the answers outs.
ProbesIssued(outs) ==
    IF find_catrare_download_url(outs) = 0 THEN Len(outs)
    ELSE find_catrare_download_url(outs)

\* download_file(): True unless a RequestException is raised.
download_file(o) == o = "ok"

\* The file download_file leaves at target_path: raise_for_status() precedes
\* open(), a transfer error comes after it.
DownloadLeavesFile(o) == o \in {"ok", "transfer_error"}

\* extract_shapefile(): shp_files = [n for n in names if n.endswith('.shp')]
shp_files(names) == SelectSeq(names, EndsWithShp)

\* extract_shapefile(): "invalid" = BadZipFile caught (None), "not_found" =
\* no .shp entry (None), "raised" = extractall raised something that is not
\* a BadZipFile, "path" = extract_dir / shp_files[0].
extract_shapefile(a) ==
    IF ~a.opens THEN [status |-> "invalid", path |-> "none"]
    ELSE IF shp_files(a.names) = <<>>
        THEN [status |-> "not_found", path |-> "none"]
    ELSE IF a.unpack = "badzip" THEN [status |-> "invalid", path |-> "none"]
    ELSE IF a.unpack = "fault" THEN [status |-> "raised", path |-> "none"]
    ELSE [status |-> "path", path |-> shp_files(a.names)[1]]

\* filter_and_convert_to_geojson(): True only when ogr2ogr exited 0, the
\* output exists and json.load read it; every exception is caught.
filter_and_convert_to_geojson_NoOutputCheck(o) == o \in {"ok", "nooutput"}
filter_and_convert_to_geojson(o) == o = "ok"

\* convert_to_pmtiles(): True only when tippecanoe exited 0 and the output
\* exists; every exception is caught.
convert_to_pmtiles(o) == o = "ok"

\* What a tippecanoe run with --force leaves at pmtiles_path: the new
\* archive on success, nothing when no output was created, and after a
\* non-zero exit the old file, no file or a truncated one.
PmtilesAfter(o, prev, content) ==
    CASE o = "ok" -> {content}
      [] o = "badvalidate" -> {content}
      [] o = "nooutput" -> {"absent"}
      [] o = "nonzero" -> {prev, "absent", "partial"}
      [] o = "nostart" -> {prev}

\* KEEP_COLUMNS, in list order.
KEEP_COLUMNS ==
    <<"geometry", "ID", "DATUM", "ANFANG", "ENDE", "DAUER_H", "N_MAX",
      "N_SUMME", "WARNSTUFE", "FLAECHE_KM2">>

\* create_mock_data(): one entry of mock_geojson["features"].  Decimal
\* literals are kept as their source text.
MockFeature(id, datum, anfang, ende, dauer_h, n_max, n_summe, warnstufe, flaeche_km2, ring) ==
    [type |-> "Feature",
     properties |-> [ID |-> id, DATUM |-> datum, ANFANG |-> anfang,
                     ENDE |-> ende, DAUER_H |-> dauer_h, N_MAX |-> n_max,
                     N_SUMME |-> n_summe, WARNSTUFE |-> warnstufe,
                     FLAECHE_KM2 |-> flaeche_km2],
     geometry |-> [type |-> "Polygon", coordinates |-> <<ring>>]]

MockFeatures ==
    << MockFeature("MOCK001", 20230715, "1400", "1800", 4, "85.5", "120.3",
                   3, "250.5",
                   << <<"10.0", "51.0">>, <<"10.5", "51.0">>,
                      <<"10.5", "51.5">>, <<"10.0", "51.5">>,
                      <<"10.0", "51.0">> >>),
       MockFeature("MOCK002", 20220621, "1600", "2100", 5, "92.1", "145.8",
                   4, "180.2",
                   << <<"8.5", "50.0">>, <<"9.0", "50.0">>,
                      <<"9.0", "50.3">>, <<"8.5", "50.3">>,
                      <<"8.5", "50.0">> >>),
       MockFeature("MOCK003", 20210814, "0200", "0800", 6, "110.0", "180.5",
                   4, "320.0",
                   << <<"6.8", "50.5">>, <<"7.2", "50.5">>,
                      <<"7.2", "50.8">>, <<"6.8", "50.8">>,
                      <<"6.8", "50.5">> >>) >>

\* create_mock_data(): the dictionary json.dump writes to
\* catrare_recent.json.
mock_geojson_Untagged ==
    [type |-> "FeatureCollection",
     metadata |-> [source |-> "Mock data for development",
                   version |-> "CatRaRE_W3_Eta_v2023.01",
                   attribution |-> "Quelle: DWD, CatRaRE v2023.01 (Mock)"],
     features |-> MockFeatures]
mock_geojson ==
    [type |-> "FeatureCollection",
     metadata |-> [source |-> "Mock data for development",
                   version |-> "MOCK",
                   attribution |-> "Quelle: DWD, CatRaRE v2023.01 (Mock)"],
     features |-> MockFeatures]

\* create_mock_data(): its return value, given what the tippecanoe attempt
\* on the mock data returned (FALSE too when the attempt was skipped):
\* "return True" whatever happened.
create_mock_data_PackagingFatal(packaged) ==
    IF packaged THEN "true" ELSE "false"
create_mock_data(packaged) == "true"

-----------------------------------------------------------------------------
(* prepare_catrare.py: main() *)

\* main(): "if not deps['ogr2ogr']: ... if not args.mock: sys.exit(1)"
DependencyFatal_NeverExits(deps, a) == FALSE
DependencyFatal_IgnoresMock(deps, a) == ~deps["ogr2ogr"]
DependencyFatal(deps, a) == ~deps["ogr2ogr"] /\ ~a.mock

\* main(): "if pmtiles_path.exists() and not args.force_download and not
\* args.mock: ... return"
SkipExisting_Never(pm, a) == FALSE
SkipExisting_WhenForced(pm, a) == Exists(pm) /\ a.force_download /\ ~a.mock
SkipExisting(pm, a) == Exists(pm) /\ ~a.force_download /\ ~a.mock

\* main(): the "if not X: create_mock_data(...); return" chain.  A stage
\* that reports failure hands over to the Fallback Generator, a stage that
\* succeeds to the next stage.
NextAfter_FetchFailureIgnored(stage, ok) ==
    CASE stage = "locate" -> IF ok THEN "fetch" ELSE "fallback"
      [] stage = "fetch" -> "extract"
      [] stage = "extract" -> IF ok THEN "convert" ELSE "fallback"
      [] stage = "convert" -> IF ok THEN "package" ELSE "fallback"
NextAfter_FailureEnds(stage, ok) ==
    IF ~ok THEN "done"
    ELSE CASE stage = "locate" -> "fetch"
           [] stage = "fetch" -> "extract"
           [] stage = "extract" -> "convert"
           [] stage = "convert" -> "package"
NextAfter_SkipsExtract(stage, ok) ==
    IF ~ok THEN "fallback"
    ELSE CASE stage = "locate" -> "fetch"
           [] stage = "fetch" -> "convert"
           [] stage = "extract" -> "convert"
           [] stage = "convert" -> "package"
NextAfter(stage, ok) ==
    IF ~ok THEN "fallback"
    ELSE CASE stage = "locate" -> "fetch"
           [] stage = "fetch" -> "extract"
           [] stage = "extract" -> "convert"
           [] stage = "convert" -> "package"

\* main(): "if deps['tippecanoe'] and not args.geojson_only"
ShouldPackage_IgnoresGeojsonOnly(deps, a) == deps["tippecanoe"]
ShouldPackage(deps, a) == deps["tippecanoe"] /\ ~a.geojson_only

\* main(): a failed convert_to_pmtiles only prints "PMTiles generation
\* failed, GeoJSON fallback available"; the run completes either way.
AfterPackage_FallsBack(ok) == IF ok THEN "done" ELSE "fallback"
AfterPackage_AlwaysFallsBack(ok) == "fallback"
AfterPackage(ok) == "done"

\* main() lines "Checking dependencies...": check_dependencies, then exit 1
\* when ogr2ogr is missing outside mock mode.
VDependencyCheck ==
    /\ pipeline = "vector"
    /\ pc = "start"
    /\ IF DependencyFatal(check_dependencies, args)
         THEN pc' = "done" /\ exitCode' = 1
         ELSE pc' = "output_dir" /\ UNCHANGED exitCode
    /\ UNCHANGED <<envVars, outVars, tmpVars, countVars, vectorVars,
                   rasterVars>>

\* main(): mkdir of the output directory, the existence check, the mock
\* branch.
VOutputDir ==
    /\ pipeline = "vector"
    /\ pc = "output_dir"
    /\ outDir' = TRUE
    /\ fsWrites' = fsWrites + MkdirWrites(outDir)
    /\ IF SkipExisting(pmtiles, args)
         THEN pc' = "done" /\ upToDate' = TRUE
         ELSE /\ pc' = IF args.mock THEN "fallback" ELSE "locate"
              /\ UNCHANGED upToDate
    /\ UNCHANGED <<envVars, pmtiles, geojson, rasters, tmpVars, net,
                   toolRuns, stages, result, probes, download_url, archive,
                   shp_path, mockRuns, mockOut, toolCalls, rasterVars,
                   exitCode>>

\* main(): find_catrare_download_url(); on a URL, enter the
\* TemporaryDirectory block.
VLocate ==
    /\ pipeline = "vector"
    /\ pc = "locate"
    /\ \E outs \in [1..Len(patterns) -> ProbeOutcomes] :
         LET url == find_catrare_download_url(outs)
             ok == url # 0
         IN /\ probes' = SubSeq(outs, 1, ProbesIssued(outs))
            /\ download_url' = url
            /\ net' = [net EXCEPT !.head = @ + ProbesIssued(outs)]
            /\ stages' = Append(stages, "locate")
            /\ result' = [result EXCEPT
                            !["locate"] = IF ok THEN "ok" ELSE "fail"]
            /\ pc' = NextAfter("locate", ok)
            /\ workspace' = IF ok THEN "live" ELSE workspace
            /\ fsWrites' = fsWrites + (IF ok THEN 1 ELSE 0)
    /\ UNCHANGED <<envVars, outVars, wsFiles, wsCount, intermediates,
                   toolRuns, archive, shp_path, mockRuns, mockOut, toolCalls,
                   upToDate, rasterVars, exitCode>>

\* main(): download_file(download_url, temp_path / "catrare.zip")
VFetch ==
    /\ pipeline = "vector"
    /\ pc = "fetch"
    /\ \E o \in DownloadOutcomes :
         /\ net' = [net EXCEPT !.get = @ + 1]
         /\ wsFiles' = IF DownloadLeavesFile(o)
                         THEN wsFiles \cup {"catrare.zip"} ELSE wsFiles
         /\ fsWrites' = fsWrites + (IF DownloadLeavesFile(o) THEN 1 ELSE 0)
         /\ stages' = Append(stages, "fetch")
         /\ result' = [result EXCEPT
                         !["fetch"] = IF download_file(o) THEN "ok" ELSE "fail"]
         /\ pc' = NextAfter("fetch", download_file(o))
    /\ UNCHANGED <<envVars, outVars, workspace, wsCount, intermediates,
                   toolRuns, probes, download_url, archive, shp_path,
                   mockRuns, mockOut, toolCalls, upToDate, rasterVars,
                   exitCode>>

\* main(): extract_shapefile(zip_path, temp_path).  An exception leaving
\* extract_shapefile leaves main() too: the workspace is released and the
\* interpreter exits with status 1.
VExtract ==
    /\ pipeline = "vector"
    /\ pc = "extract"
    /\ \E a \in Archives :
         LET r == extract_shapefile(a)
             unpacked == a.opens /\ shp_files(a.names) # <<>>
                         /\ a.unpack = "ok"
         IN /\ archive' = a
            /\ shp_path' = r.path
            /\ stages' = Append(stages, "extract")
            /\ result' = [result EXCEPT !["extract"] =
                            CASE r.status = "path" -> "ok"
                              [] r.status = "raised" -> "raised"
                              [] OTHER -> "fail"]
            /\ IF r.status = "raised"
                 THEN /\ pc' = "done"
                      /\ exitCode' = 1
                      /\ workspace' = ReleaseWorkspace(workspace)
                      /\ wsFiles' = {}
                      /\ UNCHANGED fsWrites
                 ELSE /\ pc' = NextAfter("extract", r.status = "path")
                      /\ UNCHANGED <<exitCode, workspace>>
                      /\ wsFiles' = IF unpacked
                                      THEN wsFiles \cup
                                           {a.names[i] : i \in 1..Len(a.names)}
                                      ELSE wsFiles
                      /\ fsWrites' = fsWrites + (IF unpacked THEN 1 ELSE 0)
    /\ UNCHANGED <<envVars, outVars, wsCount, intermediates, net, toolRuns,
                   probes, download_url, mockRuns, mockOut, toolCalls,
                   upToDate, rasterVars>>

\* main(): filter_and_convert_to_geojson(...), then shutil.copy of the
\* intermediate GeoJSON to the output directory.
VConvert ==
    /\ pipeline = "vector"
    /\ pc = "convert"
    /\ \E o \in Ogr2ogrOutcomes :
         LET ok == filter_and_convert_to_geojson(o)
         IN /\ toolRuns' = [toolRuns EXCEPT !.ogr2ogr = @ + 1]
            /\ toolCalls' = Append(toolCalls,
                                [fn |-> "filter_and_convert_to_geojson",
                                 outcome |-> o, returned |-> ok])
            /\ wsFiles' = IF o \in {"ok", "badjson"}
                            THEN wsFiles \cup {"intermediate.json"}
                            ELSE wsFiles
            /\ stages' = Append(stages, "convert")
            /\ result' = [result EXCEPT
                            !["convert"] = IF ok THEN "ok" ELSE "fail"]
            /\ pc' = NextAfter("convert", ok)
            /\ geojson' = IF ok THEN "real" ELSE geojson
            /\ fsWrites' = fsWrites + (IF o \in {"ok", "badjson"} THEN 1 ELSE 0)
                                    + (IF ok THEN 1 ELSE 0)
    /\ UNCHANGED <<envVars, outDir, pmtiles, rasters, workspace, wsCount,
                   intermediates, net, probes, download_url, archive,
                   shp_path, mockRuns, mockOut, upToDate, rasterVars, exitCode>>

\* main(): the PMTiles step and the end of the TemporaryDirectory block.
VPackage ==
    /\ pipeline = "vector"
    /\ pc = "package"
    /\ IF ShouldPackage(check_dependencies, args)
         THEN \E o \in TippecanoeOutcomes :
                LET ok == convert_to_pmtiles(o)
                    next == AfterPackage(ok)
                IN /\ toolRuns' = [toolRuns EXCEPT !.tippecanoe = @ + 1]
                   /\ toolCalls' = Append(toolCalls,
                                       [fn |-> "convert_to_pmtiles",
                                        outcome |-> o, returned |-> ok])
                   /\ pmtiles' \in PmtilesAfter(o, pmtiles, "real")
                   /\ stages' = Append(stages, "package")
                   /\ result' = [result EXCEPT
                                   !["package"] = IF ok THEN "ok" ELSE "fail"]
                   /\ pc' = next
                   /\ workspace' = IF next = "done"
                                     THEN ReleaseWorkspace(workspace)
                                     ELSE workspace
                   /\ wsFiles' = IF next = "done" THEN {} ELSE wsFiles
                   /\ fsWrites' = fsWrites
                        + (IF pmtiles' # pmtiles \/ o \in {"ok", "badvalidate"}
                             THEN 1 ELSE 0)
         ELSE /\ pc' = "done"
              /\ workspace' = ReleaseWorkspace(workspace)
              /\ wsFiles' = {}
              /\ UNCHANGED <<toolRuns, toolCalls, pmtiles, stages, result,
                             fsWrites>>
    /\ UNCHANGED <<envVars, outDir, geojson, rasters, wsCount, intermediates,
                   net, probes, download_url, archive, shp_path, mockRuns, mockOut,
                   upToDate, rasterVars, exitCode>>

\* create_mock_data(output_dir) followed by main()'s "return": the mock
\* GeoJSON is written, tippecanoe is tried on it when check_dependencies
\* finds it, and the TemporaryDirectory block (if entered) is left.
Fallback ==
    /\ pipeline = "vector"
    /\ pc = "fallback"
    /\ geojson' = "mock"
    /\ mockRuns' = mockRuns + 1
    /\ stages' = Append(stages, "fallback")
    /\ IF check_dependencies["tippecanoe"]
         THEN \E o \in TippecanoeOutcomes :
                /\ toolRuns' = [toolRuns EXCEPT !.tippecanoe_mock = @ + 1]
                /\ toolCalls' = Append(toolCalls,
                                    [fn |-> "convert_to_pmtiles",
                                     outcome |-> o,
                                     returned |-> convert_to_pmtiles(o)])
                /\ pmtiles' \in PmtilesAfter(o, pmtiles, "mock")
                /\ fsWrites' = fsWrites + 1
                     + (IF pmtiles' # pmtiles \/ o \in {"ok", "badvalidate"}
                          THEN 1 ELSE 0)
                /\ mockOut' = [doc |-> mock_geojson, packaging |-> o,
                               returned |-> create_mock_data(
                                               convert_to_pmtiles(o))]
         ELSE /\ fsWrites' = fsWrites + 1
              /\ mockOut' = [doc |-> mock_geojson, packaging |-> "skipped",
                             returned |-> create_mock_data(FALSE)]
              /\ UNCHANGED <<toolRuns, toolCalls, pmtiles>>
    /\ workspace' = ReleaseWorkspace(workspace)
    /\ wsFiles' = {}
    /\ pc' = "done"
    /\ UNCHANGED <<envVars, outDir, rasters, wsCount, intermediates, net,
                   result, probes, download_url, archive, shp_path, upToDate,
                   rasterVars, exitCode>>

NextVector ==
    \/ VDependencyCheck
    \/ VOutputDir
    \/ VLocate
    \/ VFetch
    \/ VExtract
    \/ VConvert
    \/ VPackage
    \/ Fallback

-----------------------------------------------------------------------------
(* prepare_kostra.py: the stages *)

\* check_gdal_installed(): "gdalinfo --version" ran and exited 0.
check_gdal_installed == tools["gdalinfo"]

GdalTranslateOutcomes == {"ok", "nonzero", "nostart"}
\* gdalwarp: exit 0 with output, exit # 0, cannot be started, exit 0 with
\* no output file.
GdalwarpOutcomes == {"ok", "nonzero", "nostart", "nooutput"}
\* verify_cog(): True only for "valid" (gdalinfo exit 0, JSON parsed, first
\* band's block edge is 256).
VerifyOutcomes == {"valid", "mismatch", "unreadable", "tool_failed"}
verify_cog(v) == v = "valid"

\* decompress_gzip(): True unless an exception is caught.
decompress_gzip(o) == o = "ok"

\* convert_to_cog(), step 1: False when gdal_translate exits non-zero or
\* subprocess.run raises.
TranslateOk(o) == o = "ok"

\* convert_to_cog(), steps 2 and 3: the value returned once gdalwarp has
\* been called.  verify_cog's answer only selects a warning; a missing
\* output makes output_path.stat() raise, which is caught.
WarpReturns_VerifyFatal(o, v) == o = "ok" /\ v
WarpReturns(o, v) == o = "ok"

\* convert_to_cog(): intermediate_path.unlink(missing_ok=True) follows
\* subprocess.run(cmd_warp) and is skipped when that call raises.
WarpUnlinks(o) == o # "nostart"

\* What gdalwarp -overwrite leaves at output_path.
RasterAfter_KeepsExisting(o, prev) ==
    CASE o = "ok" -> IF Exists(prev) THEN {prev} ELSE {"new"}
      [] o = "nooutput" -> {"absent"}
      [] o = "nonzero" -> {prev, "absent"}
      [] o = "nostart" -> {prev}
RasterAfter(o, prev) ==
    CASE o = "ok" -> {"new"}
      [] o = "nooutput" -> {"absent"}
      [] o = "nonzero" -> {prev, "absent"}
      [] o = "nostart" -> {prev}

-----------------------------------------------------------------------------
(* prepare_kostra.py: main() *)

\* main(): "if not check_gdal_installed(): ... sys.exit(1)", before the
\* --dry-run branch.
GdalFatal(installed, a) == ~installed

\* main(): the planned pairs printed under --dry-run, in loop order.
DryRunPlan ==
    [i \in 1..total_count |->
        <<InputFilename(Scenarios[i]), OutputFilename(Scenarios[i])>>]

\* main(): "if success_count < total_count: sys.exit(1)"
BatchExitCode_AlwaysZero(ok, total) == 0
BatchExitCode(ok, total) == IF ok < total THEN 1 ELSE 0

\* The loop of main(): the scenario after the current one, or the end.
AdvanceScenario_StopsAtFailure ==
    /\ scenario' = scenario + 1
    /\ pc' = IF scenario = total_count \/ returned' = "false"
               THEN "r_finish" ELSE "r_download"
AdvanceScenario ==
    /\ scenario' = scenario + 1
    /\ pc' = IF scenario = total_count THEN "r_finish" ELSE "r_download"

RDependencyCheck ==
    /\ pipeline = "raster"
    /\ pc = "start"
    /\ IF GdalFatal(check_gdal_installed, args)
         THEN pc' = "done" /\ exitCode' = 1
         ELSE pc' = "output_dir" /\ UNCHANGED exitCode
    /\ UNCHANGED <<envVars, outVars, tmpVars, countVars, vectorVars,
                   rasterVars>>

\* main(): mkdir of the output directory, then the --dry-run branch or the
\* start of the batch inside the TemporaryDirectory block.
ROutputDir ==
    /\ pipeline = "raster"
    /\ pc = "output_dir"
    /\ outDir' = TRUE
    /\ IF args.dry_run
         THEN /\ planned' = DryRunPlan
              /\ pc' = "done"
              /\ fsWrites' = fsWrites + MkdirWrites(outDir)
              /\ UNCHANGED <<workspace, scenario>>
         ELSE /\ workspace' = "live"
              /\ fsWrites' = fsWrites + MkdirWrites(outDir) + 1
              /\ scenario' = 1
              /\ pc' = "r_download"
              /\ UNCHANGED planned
    /\ UNCHANGED <<envVars, pmtiles, geojson, rasters, wsFiles, wsCount,
                   intermediates, net, toolRuns, vectorVars, success_count,
                   processed, step, returned, exitCode>>

\* process_scenario(): download_file(url, gz_path)
RDownload ==
    /\ pipeline = "raster"
    /\ pc = "r_download"
    /\ \E o \in DownloadOutcomes :
         /\ processed' = [processed EXCEPT ![scenario] = @ + 1]
         /\ net' = [net EXCEPT !.get = @ + 1]
         /\ step' = << <<"download", o>> >>
         /\ wsCount' = IF DownloadLeavesFile(o)
                         THEN [wsCount EXCEPT !.gz = @ + 1] ELSE wsCount
         /\ fsWrites' = fsWrites + (IF DownloadLeavesFile(o) THEN 1 ELSE 0)
         /\ IF download_file(o)
              THEN /\ pc' = "r_decompress"
                   /\ returned' = "none"
                   /\ UNCHANGED scenario
              ELSE /\ returned' = "false"
                   /\ AdvanceScenario
    /\ UNCHANGED <<envVars, outVars, workspace, wsFiles, intermediates,
                   toolRuns, vectorVars, success_count, planned, exitCode>>

\* process_scenario(): decompress_gzip(gz_path, asc_path); the output file
\* is opened for writing before the first byte is read.
RDecompress ==
    /\ pipeline = "raster"
    /\ pc = "r_decompress"
    /\ \E o \in {"ok", "fail"} :
         /\ step' = Append(step, <<"decompress", o>>)
         /\ wsCount' = [wsCount EXCEPT !.asc = @ + 1]
         /\ fsWrites' = fsWrites + 1
         /\ IF decompress_gzip(o)
              THEN /\ pc' = "r_translate"
                   /\ UNCHANGED <<scenario, returned>>
              ELSE /\ returned' = "false"
                   /\ AdvanceScenario
    /\ UNCHANGED <<envVars, outVars, workspace, wsFiles, intermediates, net,
                   toolRuns, vectorVars, success_count, processed, planned,
                   exitCode>>

\* convert_to_cog(), step 1: NamedTemporaryFile(delete=False), then
\* gdal_translate into it.
RTranslate ==
    /\ pipeline = "raster"
    /\ pc = "r_translate"
    /\ \E o \in GdalTranslateOutcomes :
         /\ step' = Append(step, <<"translate", o>>)
         /\ intermediates' = intermediates + 1
         /\ fsWrites' = fsWrites + 1
         /\ toolRuns' = [toolRuns EXCEPT !.gdal_translate = @ + 1]
         /\ IF TranslateOk(o)
              THEN /\ pc' = "r_warp"
                   /\ UNCHANGED <<scenario, returned>>
              ELSE /\ returned' = "false"
                   /\ AdvanceScenario
    /\ UNCHANGED <<envVars, outVars, workspace, wsFiles, wsCount, net,
                   vectorVars, success_count, processed, planned, exitCode>>

\* convert_to_cog(), steps 2 and 3 (gdalwarp, unlink of the intermediate,
\* verify_cog), then process_scenario()'s cleanup and main()'s counting.
RWarp ==
    /\ pipeline = "raster"
    /\ pc = "r_warp"
    /\ \E o \in GdalwarpOutcomes :
       \E v \in (IF o = "ok" THEN VerifyOutcomes ELSE {"tool_failed"}) :
         LET ok == WarpReturns(o, verify_cog(v))
         IN /\ step' = IF o \in {"ok", "nooutput"}
                         THEN step \o << <<"warp", o>>, <<"verify", v>> >>
                         ELSE Append(step, <<"warp", o>>)
            /\ toolRuns' = [toolRuns EXCEPT !.gdalwarp = @ + 1]
            /\ intermediates' = IF WarpUnlinks(o)
                                  THEN intermediates - 1 ELSE intermediates
            /\ \E f \in RasterAfter(o, rasters[scenario]) :
                 /\ rasters' = [rasters EXCEPT ![scenario] = f]
                 /\ fsWrites' = fsWrites
                      + (IF WarpUnlinks(o) THEN 1 ELSE 0)
                      + (IF f # rasters[scenario] \/ o = "ok" THEN 1 ELSE 0)
                      + (IF ok THEN 2 ELSE 0)
            /\ wsCount' = IF ok
                            THEN [gz |-> wsCount.gz - 1, asc |-> wsCount.asc - 1]
                            ELSE wsCount
            /\ success_count' = IF ok THEN success_count + 1 ELSE success_count
            /\ returned' = IF ok THEN "true" ELSE "false"
            /\ AdvanceScenario
    /\ UNCHANGED <<envVars, outDir, pmtiles, geojson, workspace, wsFiles,
                   net, vectorVars, processed, planned, exitCode>>

\* main(): the end of the TemporaryDirectory block, the summary and the
\* exit status.
RFinish ==
    /\ pipeline = "raster"
    /\ pc = "r_finish"
    /\ workspace' = ReleaseWorkspace(workspace)
    /\ wsCount' = IF ReleaseWorkspace(workspace) = "removed"
                    THEN [gz |-> 0, asc |-> 0] ELSE wsCount
    /\ exitCode' = BatchExitCode(success_count, total_count)
    /\ pc' = "done"
    /\ UNCHANGED <<envVars, outVars, wsFiles, intermediates, countVars,
                   vectorVars, rasterVars>>

NextRaster ==
    \/ RDependencyCheck
    \/ ROutputDir
    \/ RDownload
    \/ RDecompress
    \/ RTranslate
    \/ RWarp
    \/ RFinish

Next == NextVector \/ NextRaster

Spec == Init /\ [][Next]_vars


-----------------------------------------------------------------------------
(* Properties *)

Vector == pipeline = "vector"
Raster == pipeline = "raster"
Done == pc = "done"

NoNetwork == net.head = 0 /\ net.get = 0
NoToolRuns == \A t \in DOMAIN toolRuns : toolRuns[t] = 0
NoScenarioProcessed == \A i \in 1..total_count : processed[i] = 0

\* The tool main() requires: ogr2ogr (vector), GDAL (raster).
RequiredToolAbsent ==
    IF Vector THEN ~tools["ogr2ogr"] ELSE ~tools["gdalinfo"]

\* The final artifact was there and no flag overrides the existence check.
ExistingAndNoOverride ==
    Vector /\ Exists(initial.pmtiles) /\ ~args.force_download /\ ~args.mock

\* The raster batch ran to its end.
BatchDone == Raster /\ Done /\ scenario > total_count

\* C1: in the real vector path, when LOCATE resolves no URL or FETCH,
\* EXTRACT or CONVERT reports failure, the next stage invoked is the
\* Fallback Generator and it is the last one: no real stage follows, the
\* mock record set is written and the run ends with exit code 0.
C1_FailureGoesToFallback ==
    \A i \in 1..Len(stages) :
        (stages[i] \in {"locate", "fetch", "extract", "convert"}
         /\ result[stages[i]] = "fail")
        => /\ toolRuns.tippecanoe = 0
           /\ IF i = Len(stages)
                THEN pc = "fallback"
                ELSE /\ Len(stages) = i + 1
                     /\ stages[i + 1] = "fallback"
                     /\ Done
                     /\ geojson = "mock"
                     /\ mockRuns = 1
                     /\ exitCode = 0

C1_Witness ==
    /\ Done
    /\ stages = <<"locate", "fetch", "fallback">>
    /\ result["fetch"] = "fail"
    /\ geojson = "mock"

\* C2 as stated: a failed PACKAGE stage of the real path reaches the
\* Fallback Generator before the run is done.
C2_PackageFailureFallsBack ==
    (Vector /\ Done /\ result["package"] = "fail") => mockRuns > 0

\* C2, amended: PACKAGE has no edge to FALLBACK.  When the tiling tool of
\* the real path fails, the run is done at once with exit code 0, the
\* Fallback Generator is not invoked and the real catrare_recent.json stays.
C2_PackageFailureKeepsRealOutput ==
    (Vector /\ result["package"] = "fail")
    => /\ Done
       /\ exitCode = 0
       /\ mockRuns = 0
       /\ stages = <<"locate", "fetch", "extract", "convert", "package">>
       /\ geojson = "real"

C2_Witness ==
    /\ Done
    /\ result["package"] = "fail"
    /\ pmtiles = "absent"
    /\ geojson = "real"

\* C3: with the required conversion tool absent and mock mode not set, no
\* network request is made and no stage runs, and the run ends with exit
\* code 1.
C3_MissingToolExitsBeforeNetwork ==
    (RequiredToolAbsent /\ ~args.mock)
    => /\ NoNetwork
       /\ NoToolRuns
       /\ stages = <<>>
       /\ mockRuns = 0
       /\ NoScenarioProcessed
       /\ pc \in {"start", "done"}
       /\ Done => exitCode = 1

C3_Witness == Vector /\ Done /\ ~tools["ogr2ogr"] /\ exitCode = 1

\* C4 as stated: the exit code is 1 exactly when a required tool is absent
\* and neither --mock nor --dry-run was requested, or a scenario of the
\* raster batch failed; otherwise it is 0.
C4_ExitCodeRule ==
    Done =>
        (exitCode = 1 <=>
            \/ RequiredToolAbsent /\ ~args.mock /\ ~args.dry_run
            \/ BatchDone /\ success_count < total_count)

\* C5: with catrare.pmtiles present and neither --force-download nor --mock,
\* the run makes no network request, runs no conversion or packaging tool,
\* does not run the Fallback Generator and leaves both output files as they
\* were.
C5_ExistingArtifactUntouched ==
    ExistingAndNoOverride
    => /\ NoNetwork
       /\ NoToolRuns
       /\ mockRuns = 0
       /\ pmtiles = initial.pmtiles
       /\ geojson = initial.geojson

C5_Witness ==
    /\ ExistingAndNoOverride
    /\ Done
    /\ upToDate
    /\ initial.geojson = "old"
    /\ geojson = "old"

\* C6 as stated: with the artifact present and no overriding flag the run
\* skips the pipeline, reports the artifact as up to date and exits 0,
\* whatever tools are available.
C6_SkipForEveryToolState ==
    (ExistingAndNoOverride /\ Done)
    => upToDate /\ exitCode = 0 /\ stages = <<>>

\* C6, amended: the same holds whenever ogr2ogr is available (for every
\* state of the other tools); with ogr2ogr absent the run exits 1 at the
\* dependency check and reports nothing, still without running a stage.
C6_SkipWhenOgr2ogrPresent ==
    (ExistingAndNoOverride /\ Done)
    => /\ stages = <<>>
       /\ mockRuns = 0
       /\ IF tools["ogr2ogr"]
            THEN upToDate /\ exitCode = 0
            ELSE ~upToDate /\ exitCode = 1

C6_Witness ==
    /\ ExistingAndNoOverride
    /\ Done
    /\ tools["ogr2ogr"]
    /\ ~tools["tippecanoe"]
    /\ upToDate
    /\ exitCode = 0

C8_DryRunNoWritesNoNetwork ==
    (Raster /\ args.dry_run)
    => fsWrites = 0 /\ outDir = initial.outDir /\ NoNetwork

\* C9 as stated: a raster --dry-run run with the default sets prints exactly
\* 6 planned pairs, one per duration x return-period combination and none
\* twice, exits 0, processes no scenario and creates no file.
C9_DryRunPrintsSixPairs ==
    (Raster /\ args.dry_run /\ Done)
    => /\ Len(planned) = 6
       /\ \A i, j \in 1..Len(planned) : planned[i] = planned[j] => i = j
       /\ \A d \in 1..Len(DURATIONS) : \A p \in 1..Len(RETURN_PERIODS) :
             \E i \in 1..Len(planned) :
                planned[i] =
                    << <<"hN_D", DURATIONS[d][2], "m_T",
                         RETURN_PERIODS[p][2], "a.asc.gz">>,
                       <<"kostra_d", DURATIONS[d][1], "_t",
                         RETURN_PERIODS[p][1], ".tif">> >>
       /\ exitCode = 0
       /\ NoScenarioProcessed
       /\ rasters = initial.rasters
       /\ wsCount = [gz |-> 0, asc |-> 0]
       /\ intermediates = 0

\* C10: when a run ends, on whichever path, its temporary workspace does
\* not exist (it was removed, or the run ended before creating it) and
\* nothing is left in it.
C10_WorkspaceReleased ==
    Done
    => /\ workspace # "live"
       /\ wsFiles = {}
       /\ wsCount = [gz |-> 0, asc |-> 0]

C10_Witness ==
    /\ Vector
    /\ Done
    /\ workspace = "removed"
    /\ result["convert"] = "fail"
    /\ mockRuns = 1

\* C11 as stated: when a raster run ends, no intermediate artifact it
\* created is left: no downloaded archive, no decompressed grid, no
\* intermediate raster of the conversion.
C11_NoLeakedIntermediates ==
    (Raster /\ Done)
    => /\ wsCount = [gz |-> 0, asc |-> 0]
       /\ workspace # "live"
       /\ intermediates = 0

\* C12 as stated: after a raster batch every scenario has an output
\* artifact, real or placeholder, in the output directory.
C12_EveryScenarioHasArtifact ==
    BatchDone => \A i \in 1..total_count : Exists(rasters[i])

\* C12, amended: the raster pipeline has no placeholder.  A scenario that
\* fails leaves no new output (what was there before stays, or is gone), a
\* scenario with no earlier output that fails has none after the run, and
\* the run exits 1 exactly when some scenario produced no new raster.
C12_FailedScenarioHasNoPlaceholder ==
    BatchDone
    => /\ \A i \in 1..total_count :
             rasters[i] \in {"new", "absent", initial.rasters[i]}
       /\ \A i \in 1..total_count :
             (~Exists(initial.rasters[i]) /\ rasters[i] # "new")
             => ~Exists(rasters[i])
       /\ (exitCode = 1) <=> (\E i \in 1..total_count : rasters[i] # "new")
       /\ (exitCode = 0) <=> (\A i \in 1..total_count : rasters[i] = "new")

C12_Witness ==
    /\ BatchDone
    /\ exitCode = 1
    /\ rasters[1] = "absent"
    /\ rasters[2] = "new"
    /\ initial.rasters[1] = "absent"

Loadable(f) == f \in {"old", "real", "mock"}

\* C13: after every vector run that ends with exit code 0 the output
\* directory holds a loadable catrare.pmtiles or catrare_recent.json.
C13_ExitZeroLeavesArtifact ==
    (Vector /\ Done /\ exitCode = 0) => Loadable(pmtiles) \/ Loadable(geojson)

C13_Witness ==
    /\ Vector
    /\ Done
    /\ exitCode = 0
    /\ ~Exists(initial.pmtiles)
    /\ ~Exists(initial.geojson)
    /\ result["extract"] = "fail"
    /\ ~Loadable(pmtiles)
    /\ geojson = "mock"

\* The properties every feature must carry.
RequiredProperties ==
    {"ID", "DATUM", "ANFANG", "ENDE", "DAUER_H", "N_MAX", "N_SUMME",
     "WARNSTUFE", "FLAECHE_KM2"}

\* C14: in mock mode and on every fallback path the record set written to
\* catrare_recent.json is a feature collection with at least one feature,
\* every feature has all of RequiredProperties (the KEEP_COLUMNS other than
\* geometry), and metadata.version is "MOCK".
C14_MockRecordSetSchema ==
    (Vector /\ Done /\ (mockRuns > 0 \/ (args.mock /\ exitCode = 0)))
    => /\ geojson = "mock"
       /\ mockOut.doc.type = "FeatureCollection"
       /\ Len(mockOut.doc.features) >= 1
       /\ \A i \in 1..Len(mockOut.doc.features) :
             RequiredProperties
                \subseteq DOMAIN mockOut.doc.features[i].properties
       /\ RequiredProperties
            = {KEEP_COLUMNS[k] : k \in 1..Len(KEEP_COLUMNS)} \ {"geometry"}
       /\ mockOut.doc.metadata.version = "MOCK"

C14_Witness ==
    /\ Vector
    /\ Done
    /\ args.mock
    /\ geojson = "mock"
    /\ Len(mockOut.doc.features) = 3

\* C15: create_mock_data always writes the placeholder record set and
\* returns True; tippecanoe is tried on it exactly when check_dependencies
\* finds the tool, and a failure of that attempt changes neither the return
\* value nor the exit code.
C15_FallbackNeverFails ==
    (Vector /\ mockRuns > 0)
    => /\ geojson = "mock"
       /\ mockOut.returned = "true"
       /\ (mockOut.packaging = "skipped") <=> ~tools["tippecanoe"]
       /\ mockOut.packaging \in TippecanoeOutcomes <=> tools["tippecanoe"]
       /\ toolRuns.tippecanoe_mock = IF tools["tippecanoe"] THEN 1 ELSE 0
       /\ Done
       /\ exitCode = 0

C15_Witness ==
    /\ Vector
    /\ Done
    /\ mockOut.packaging = "nonzero"
    /\ mockOut.returned = "true"
    /\ geojson = "mock"
    /\ exitCode = 0

\* C16: find_catrare_download_url returns the first pattern, in list order,
\* whose probe answered 200 and probes none after it; it returns None
\* exactly when no probe answered 200; a probe that raised a network error
\* counts as unsuccessful and resolution goes on.
C16_FirstSuccessfulProbe ==
    (Vector /\ result["locate"] # "none")
    => /\ net.head = Len(probes)
       /\ Len(probes) <= Len(patterns)
       /\ IF download_url = 0
            THEN /\ result["locate"] = "fail"
                 /\ Len(probes) = Len(patterns)
                 /\ \A j \in 1..Len(probes) : probes[j] # "200"
            ELSE /\ result["locate"] = "ok"
                 /\ Len(probes) = download_url
                 /\ probes[download_url] = "200"
                 /\ \A j \in 1..(download_url - 1) : probes[j] # "200"

C16_Witness ==
    /\ Vector
    /\ probes = <<"network_error", "200">>
    /\ download_url = 2
    /\ net.head = 2
    /\ result["locate"] = "ok"

\* C17 as stated: extract_shapefile never raises; it reports failure for a
\* container that does not open or has no .shp entry, and returns the first
\* .shp entry when there is one and the container unpacks.
C17_ExtractionTotal ==
    (Vector /\ result["extract"] # "none")
    => /\ result["extract"] # "raised"
       /\ ~archive.opens
            => result["extract"] = "fail" /\ shp_path = "none"
       /\ (archive.opens /\ \A k \in 1..Len(archive.names) :
                               ~EndsWithShp(archive.names[k]))
            => result["extract"] = "fail" /\ shp_path = "none"
       /\ (archive.opens /\ archive.unpack = "ok"
           /\ \E k \in 1..Len(archive.names) : EndsWithShp(archive.names[k]))
            => /\ result["extract"] = "ok"
               /\ \E k \in 1..Len(archive.names) :
                     /\ shp_path = archive.names[k]
                     /\ EndsWithShp(archive.names[k])
                     /\ \A j \in 1..(k - 1) : ~EndsWithShp(archive.names[j])

\* C18: when gdalwarp succeeded (after gdal_translate) and the output
\* exists, convert_to_cog and process_scenario return True whatever
\* verify_cog found, and the scenario is counted.
C18_ValidationNonFatal ==
    (Raster /\ Len(step) = 5 /\ step[4] = <<"warp", "ok">>)
    => /\ step[3] = <<"translate", "ok">>
       /\ step[5][1] = "verify"
       /\ returned = "true"
       /\ rasters[scenario - 1] = "new"
       /\ success_count
            = Cardinality({i \in 1..total_count : rasters[i] = "new"})
       /\ success_count >= 1

C18_Witness ==
    /\ Raster
    /\ Len(step) = 5
    /\ step[4] = <<"warp", "ok">>
    /\ step[5] = <<"verify", "mismatch">>
    /\ returned = "true"
    /\ success_count = 2

\* Scenario i has been handed to process_scenario.
Started(i) == i < scenario \/ (i = scenario /\ pc # "r_download")

\* C19: in a real raster run the scenarios are processed in loop order, one
\* at a time and each exactly once; a failed scenario does not stop the
\* batch; success_count is the number of scenarios that succeeded and lies
\* between 0 and total_count.
C19_BatchSequentialAndCounted ==
    (Raster /\ ~args.dry_run /\ tools["gdalinfo"])
    => /\ \A i \in 1..total_count :
             processed[i] = IF Started(i) THEN 1 ELSE 0
       /\ \A i \in 1..total_count :
             (rasters[i] # initial.rasters[i] \/ rasters[i] = "new")
             => Started(i)
       /\ success_count
            = Cardinality({i \in 1..total_count : rasters[i] = "new"})
       /\ success_count >= 0
       /\ success_count <= total_count
       /\ pc \in {"r_decompress", "r_translate", "r_warp"}
            => scenario \in 1..total_count /\ returned = "none"
       /\ Done
            => /\ \A i \in 1..total_count : processed[i] = 1
               /\ net.get = total_count

C19_Witness ==
    /\ Raster
    /\ Done
    /\ rasters[1] = "absent"
    /\ rasters[total_count] = "new"
    /\ success_count = 1
    /\ \A i \in 1..total_count : processed[i] = 1

\* C20: with --mock the vector run makes no network request and runs no
\* extraction or conversion stage; it runs the Fallback Generator, once,
\* and exits 0, whether or not ogr2ogr, tippecanoe or an earlier artifact
\* is there.
C20_MockSkipsRealPipeline ==
    (Vector /\ args.mock)
    => /\ NoNetwork
       /\ toolRuns.ogr2ogr = 0
       /\ toolRuns.tippecanoe = 0
       /\ \A s \in VectorStages : result[s] = "none"
       /\ workspace = "none"
       /\ exitCode = 0
       /\ Done => stages = <<"fallback">> /\ mockRuns = 1

C20_Witness ==
    /\ Vector
    /\ args.mock
    /\ Done
    /\ ~tools["ogr2ogr"]
    /\ ~tools["tippecanoe"]
    /\ Exists(initial.pmtiles)
    /\ mockRuns = 1
    /\ exitCode = 0

\* C21 as stated: the metadata object of the record set the Fallback
\* Generator writes has source, version and attribution and, besides them,
\* two more entries: a license and a processing timestamp.
C21_MockMetadataComplete ==
    (Vector /\ mockRuns > 0)
    => LET keys == DOMAIN mockOut.doc.metadata
       IN /\ {"source", "version", "attribution"} \subseteq keys
          /\ \E l, t \in keys \ {"source", "version", "attribution"} : l # t

\* main(): the real stages in the order of their calls.
StageOrder == <<"locate", "fetch", "extract", "convert", "package">>

IsRealStage(s) == s \in VectorStages

\* The real stages main() has invoked so far, in order of invocation.
RealStages == SelectSeq(stages, IsRealStage)

\* C22: the real stages invoked in a vector run are an initial part of
\* LOCATE, FETCH, EXTRACT, CONVERT, PACKAGE: none is invoked twice, skipped
\* over or out of order, and a stage is invoked only when every stage before
\* it was invoked and reported success.  Each stage's network call or tool
\* is run at most once, and nothing real follows the Fallback Generator.
C22_StagesInOrder ==
    Vector
    => /\ Len(RealStages) <= Len(StageOrder)
       /\ \A i \in 1..Len(RealStages) :
             /\ RealStages[i] = StageOrder[i]
             /\ result[StageOrder[i]] # "none"
             /\ \A j \in 1..(i - 1) : result[StageOrder[j]] = "ok"
       /\ \A s \in VectorStages :
             result[s] # "none" <=> \E i \in 1..Len(RealStages) : RealStages[i] = s
       /\ net.get <= 1
       /\ toolRuns.ogr2ogr <= 1
       /\ toolRuns.tippecanoe <= 1
       /\ toolRuns.tippecanoe + toolRuns.tippecanoe_mock <= 1
       /\ \A i \in 1..Len(stages) : stages[i] = "fallback" => i = Len(stages)

C22_Witness ==
    /\ Vector
    /\ Done
    /\ stages = StageOrder
    /\ \A s \in VectorStages : result[s] = "ok"
    /\ net.get = 1
    /\ toolRuns.ogr2ogr = 1
    /\ toolRuns.tippecanoe = 1

\* C23 as stated: gdalwarp (step b) is invoked only after gdal_translate
\* (step a) succeeded; when either sub-step fails convert_to_cog returns
\* False; and once gdalwarp has been invoked the intermediate raster of the
\* conversion is gone when convert_to_cog returns, whatever gdalwarp did.
C23_ConversionSubSteps ==
    [][Raster =>
        /\ pc' = "r_warp"
             => pc = "r_translate" /\ step'[Len(step')] = <<"translate", "ok">>
        /\ (pc = "r_translate" /\ step'[Len(step')] # <<"translate", "ok">>)
             => returned' = "false" /\ pc' # "r_warp"
        /\ (pc = "r_warp" /\ step'[4] # <<"warp", "ok">>)
             => returned' = "false"
        /\ pc = "r_warp"
             => toolRuns'.gdalwarp = toolRuns.gdalwarp + 1
                /\ intermediates' = intermediates - 1]_vars

\* The tool was started, exited 0 and its declared output file exists.
ExitedZeroWithOutput(o) == o \in {"ok", "badjson", "badvalidate"}

\* C24: every call of filter_and_convert_to_geojson and of
\* convert_to_pmtiles returns a truth value and the run goes on (nothing is
\* raised); it returns False when the tool exited non-zero, could not be
\* started or exited 0 without its output file, and True only when the tool
\* exited 0 and the output file exists.  main() takes CONVERT and PACKAGE to
\* have succeeded exactly when the call returned True.
C24_ToolStagesReportFailure ==
    Vector
    => /\ \A i \in 1..Len(toolCalls) :
             /\ toolCalls[i].returned \in BOOLEAN
             /\ toolCalls[i].outcome \in {"nonzero", "nostart", "nooutput"}
                  => toolCalls[i].returned = FALSE
             /\ toolCalls[i].returned = TRUE
                  => ExitedZeroWithOutput(toolCalls[i].outcome)
       /\ Len(toolCalls)
            = toolRuns.ogr2ogr + toolRuns.tippecanoe + toolRuns.tippecanoe_mock
       /\ toolCalls # <<>> => exitCode = 0
       /\ result["convert"] # "none"
            => /\ toolCalls[1].fn = "filter_and_convert_to_geojson"
               /\ result["convert"] = "ok" <=> toolCalls[1].returned
               /\ geojson = "real" => toolCalls[1].outcome = "ok"
       /\ result["package"] # "none"
            => /\ toolCalls[2].fn = "convert_to_pmtiles"
               /\ result["package"] = "ok" <=> toolCalls[2].returned
               /\ result["package"] = "ok" => pmtiles = "real"

C24_Witness ==
    /\ Vector
    /\ Done
    /\ Len(toolCalls) = 2
    /\ toolCalls[1].outcome = "ok"
    /\ toolCalls[1].returned = TRUE
    /\ toolCalls[2].outcome = "nooutput"
    /\ toolCalls[2].returned = FALSE
    /\ result["package"] = "fail"
    /\ exitCode = 0

\* C25: in a vector run the Fallback Generator is invoked at most once, and
\* never once the real path has written catrare_recent.json: the output
\* directory then keeps the real record set, no tiling of mock data is tried
\* and no mock archive appears.  Conversely a run that did invoke the
\* Fallback Generator wrote nothing real.
C25_RealOutputNeverOverwritten ==
    Vector
    => /\ mockRuns <= 1
       /\ result["convert"] = "ok"
            => /\ geojson = "real"
               /\ mockRuns = 0
               /\ mockOut = NoMockOut
               /\ toolRuns.tippecanoe_mock = 0
               /\ pmtiles # "mock"
               /\ pc \in {"package", "done"}
       /\ mockRuns > 0
            => /\ geojson = "mock"
               /\ result["convert"] # "ok"
               /\ toolRuns.tippecanoe = 0
               /\ pmtiles # "real"
               /\ Done
       /\ geojson \in {initial.geojson, "real", "mock"}

C25_Witness ==
    /\ Vector
    /\ Done
    /\ initial.geojson = "old"
    /\ geojson = "real"
    /\ Len(toolCalls) = 2
    /\ toolCalls[2].outcome = "nonzero"
    /\ pmtiles = "partial"
    /\ mockRuns = 0

\* C26: in a vector run that ended after a successful CONVERT, the PACKAGE
\* stage was invoked exactly when tippecanoe was found by the dependency
\* check and --geojson-only is not set.  Otherwise no tiling tool ran and
\* catrare.pmtiles is as the run found it.  Either way the real
\* catrare_recent.json is written, the exit code is 0 and the Fallback
\* Generator was not invoked.
C26_PackageExactlyWhenToolAndNotGeojsonOnly ==
    (Vector /\ Done /\ result["convert"] = "ok")
    => /\ result["package"] # "none"
            <=> (tools["tippecanoe"] /\ ~args.geojson_only)
       /\ toolRuns.tippecanoe
            = IF tools["tippecanoe"] /\ ~args.geojson_only THEN 1 ELSE 0
       /\ ~(tools["tippecanoe"] /\ ~args.geojson_only)
            => /\ stages = <<"locate", "fetch", "extract", "convert">>
               /\ pmtiles = initial.pmtiles
               /\ Len(toolCalls) = 1
       /\ geojson = "real"
       /\ exitCode = 0
       /\ mockRuns = 0
       /\ toolRuns.tippecanoe_mock = 0

C26_Witness ==
    /\ Vector
    /\ Done
    /\ result["convert"] = "ok"
    /\ tools["tippecanoe"]
    /\ args.geojson_only
    /\ result["package"] = "none"
    /\ toolRuns.tippecanoe = 0
    /\ geojson = "real"
    /\ exitCode = 0

=============================================================================
